---- MODULE Spec2Model ----
(***************************************************************************)
(* The RAG service of the repository: the VectorStore                      *)
(* (src/rag/app/vector_store.py) as the single module-level instance of    *)
(* src/rag/app/main.py, driven by ingest and query requests on one asyncio *)
(* event loop, with the save scheduled by each ingest running in a worker  *)
(* thread, and with process crash and restart (start-up load); the         *)
(* VectorStore called by one caller; the DocumentProcessor                 *)
(* (src/rag/app/document_processor.py) applied to a text; the              *)
(* EmbeddingService (src/rag/app/embedding_service.py) applied to a batch  *)
(* of texts; and the handlers of the backend (src/backend/app/main.py) on  *)
(* its users and documents tables.                                         *)
(***************************************************************************)
EXTENDS Integers, Sequences, FiniteSets, Bags, TLC

\* ------------------------------------------------------------ bounds ----
\* Largest batch (vectors or payloads) one call passes.
MaxBatch == 2
\* Largest next id the store is let reach.
MaxVectors == 2
\* Largest k a query asks for.
MaxK == 2
\* Most ingest requests that wait for their document to be parsed at once.
MaxUploads == 2
\* Longest text given to the chunker, in characters.
MaxTextLen == 5

\* Most upload handlers of one user that run at once.
MaxRequests == 2
\* The document limit of a user (10 in the source).
DocumentLimit == 2
\* Longest text given to the embedding service, in tokens.
MaxTokens == 2
\* max_length of the tokenizer call (512 in the source).
MaxLength == 3

\* chunk_size of the DocumentProcessor (512 in the source).
ChunkSize == 2

\* chunk_overlap of the DocumentProcessor (50 in the source).
ChunkOverlap == 1

\* The dimension of the embeddings and of the index (768 in the source).
Dimension == 2

\* The payload records of the chunks.
Payloads == {"a", "b"}

\* ----------------------------------------------------------- helpers ----
Range(s) == {s[i] : i \in DOMAIN s}

SeqsUpTo(S, n) == UNION {[1..m -> S] : m \in 0..n}

Max(a, b) == IF a >= b THEN a ELSE b

Filled(n, x) == [i \in 1..n |-> x]

\* EmbeddingService.get_embeddings: one vector of the model's dimension per
\* text, the same vector for the same text.
TextVector ==
  [p \in Payloads |-> [i \in 1..Dimension |-> IF (p = "a") = (i = 1) THEN 0 ELSE 1]]
get_embeddings(texts) == [i \in DOMAIN texts |-> TextVector[texts[i]]]

\* A vector that is too long for the index.
BadVector == Filled(Dimension + 1, 0)
InputVectors == Range(TextVector) \cup {BadVector}

\* The documents ingested: the chunks of each, in order.
Documents == SeqsUpTo(Payloads, MaxBatch)

\* The direct calls of add_embeddings tried, each <<embeddings, metadata>>:
\* the chunks of a document with their embeddings; one vector with each
\* payload (chunks of one text from two documents have one embedding and
\* two payloads); every arrangement of a good and the bad vector with a
\* payload list of its length; and a batch of each length with a payload
\* list of each length (a rejection depends on the lengths only).
AddInputs ==
  {<<get_embeddings(chunks), chunks>> : chunks \in Documents}
    \cup {<<get_embeddings(<<p>>), <<r>>>> : p, r \in Payloads}
    \cup {<<e, Filled(Len(e), "a")>> : e \in SeqsUpTo({TextVector["a"], BadVector}, MaxBatch)}
    \cup {<<Filled(n, TextVector["a"]), Filled(m, "a")>> :
            n \in 0..MaxBatch, m \in 0..MaxBatch}

\* --------------------------------------------- faiss.IndexFlatL2 --------
\* The flat index: its dimension d, its vector count ntotal and the
\* vectors laid end to end in xb; vector i (from 0) is xb[i*d+1 .. (i+1)*d].
IndexFlatL2(d) == [d |-> d, ntotal |-> 0, xb |-> <<>>]

RECURSIVE Flatten(_)
Flatten(vs) == IF vs = <<>> THEN <<>> ELSE Head(vs) \o Flatten(Tail(vs))

IndexAdd(index, vs) ==
  [index EXCEPT !.ntotal = @ + Len(vs), !.xb = @ \o Flatten(vs)]

Reconstruct(index, i) == SubSeq(index.xb, i * index.d + 1, (i + 1) * index.d)

\* Squared Euclidean distance of two vectors of one length.
RECURSIVE L2Sqr(_, _)
L2Sqr(x, y) ==
  IF x = <<>> THEN 0
  ELSE (Head(x) - Head(y)) * (Head(x) - Head(y)) + L2Sqr(Tail(x), Tail(y))

\* The distance of the query to each stored vector, in position order.
RECURSIVE Distances(_, _, _)
Distances(index, q, n) ==
  IF n = 0 THEN <<>>
  ELSE Append(Distances(index, q, n - 1), L2Sqr(Reconstruct(index, n - 1), q))

\* The ordering with the higher position first at equal distance.
BeforeNewestFirst(dist, i, j) ==
  dist[i + 1] < dist[j + 1] \/ (dist[i + 1] = dist[j + 1] /\ i > j)

\* The ordering by position alone.
BeforeByPosition(dist, i, j) == i < j

\* Whether position i comes before position j in a search with these
\* distances: nearer first, and the lower position first at equal distance.
Before(dist, i, j) ==
  dist[i + 1] < dist[j + 1] \/ (dist[i + 1] = dist[j + 1] /\ i < j)

\* The rank (from 0) of position i among the stored vectors.
Rank(dist, i) == Cardinality({j \in 0..(Len(dist) - 1) : Before(dist, j, i)})

\* The distance faiss reports in a slot it could not fill (the largest
\* float32, here the largest 32-bit integer).
FLT_MAX == 2147483647

\* The ranks of the positions 0..n-1, in position order.
RECURSIVE Ranks(_, _)
Ranks(dist, n) ==
  IF n = 0 THEN <<>> ELSE Append(Ranks(dist, n - 1), Rank(dist, n - 1))

\* index.search(q, k): k slots, the best positions first with their
\* distances; the slots beyond the vectors held carry position -1.
IndexSearch(index, q, k) ==
  LET dist == Distances(index, q, index.ntotal)
      rank == Ranks(dist, index.ntotal)
      at(r) == CHOOSE i \in 0..(index.ntotal - 1) : rank[i + 1] = r
  IN  [r \in 1..k |->
         IF r <= index.ntotal
         THEN [idx |-> at(r - 1), distance |-> dist[at(r - 1) + 1]]
         ELSE [idx |-> -1, distance |-> FLT_MAX]]

\* ------------------------------------------------------ VectorStore -----
EmptyMap == <<>>

VectorStore(dimension) ==
  [dimension |-> dimension, index |-> IndexFlatL2(dimension),
   document_map |-> EmptyMap, current_id |-> 0]

VectorCount(store) == store.index.ntotal
MapSize(store) == Cardinality(DOMAIN store.document_map)

\* add_embeddings without the comparison of the two lengths.
AddCheckNoLengthCheck(store, embeddings, metadata) ==
  IF embeddings = <<>> THEN "ValueError: shape"
  ELSE IF \E i, j \in DOMAIN embeddings : Len(embeddings[i]) # Len(embeddings[j])
    THEN "ValueError: shape"
  ELSE IF Len(embeddings[1]) # store.index.d THEN "AssertionError"
  ELSE "ok"

\* add_embeddings with the length of the first vector checked alone.
AddCheckFirstVectorOnly(store, embeddings, metadata) ==
  IF Len(embeddings) # Len(metadata) THEN "ValueError: number must match"
  ELSE IF embeddings = <<>> THEN "ValueError: shape"
  ELSE IF Len(embeddings[1]) # store.index.d THEN "AssertionError"
  ELSE "ok"

\* Lines 16-24 of add_embeddings: the outcome of the checks made before
\* anything is changed. A length mismatch raises ValueError; np.array of an
\* empty or ragged batch has no (n, d) shape, which raises ValueError; a
\* batch of vectors of one wrong length fails faiss's assertion.
AddCheck(store, embeddings, metadata) ==
  IF Len(embeddings) # Len(metadata) THEN "ValueError: number must match"
  ELSE IF embeddings = <<>> THEN "ValueError: shape"
  ELSE IF \E i, j \in DOMAIN embeddings : Len(embeddings[i]) # Len(embeddings[j])
    THEN "ValueError: shape"
  ELSE IF Len(embeddings[1]) # store.index.d THEN "AssertionError"
  ELSE "ok"

\* Line 24: self.index.add(embeddings_array).
AddVectors(store, embeddings) ==
  [store EXCEPT !.index = IndexAdd(@, embeddings)]

\* Lines 26-29 with the ids of line 22 counted from current_id + 1.
AddPayloadsFromNextId(store, metadata) ==
  LET c == store.current_id
      n == Len(metadata)
      new == (c + 1)..(c + n)
  IN  [store EXCEPT
         !.document_map =
            [id \in (DOMAIN @) \cup new |->
               IF id \in new THEN metadata[id - c] ELSE @[id]],
         !.current_id = c + n]

\* Lines 26-29: the payloads under the ids computed at line 22, then the
\* next id advanced.
AddPayloads(store, metadata) ==
  LET c == store.current_id
      n == Len(metadata)
      new == c..(c + n - 1)
  IN  [store EXCEPT
         !.document_map =
            [id \in (DOMAIN @) \cup new |->
               IF id \in new THEN metadata[id - c + 1] ELSE @[id]],
         !.current_id = c + n]

\* Line 37: the slots that carry a position.
IsValid(hit) == hit.idx # -1

\* search on a faiss whose search does not assert k > 0: no slot is asked
\* for, and the empty list is returned.
SearchWithoutAssert(store, query_embedding, k) ==
  IF Len(query_embedding) # store.index.d THEN [outcome |-> "AssertionError", results |-> <<>>]
  ELSE LET hits == SelectSeq(IndexSearch(store.index, query_embedding, k), IsValid)
       IN  IF \E r \in DOMAIN hits : hits[r].idx \notin DOMAIN store.document_map
           THEN [outcome |-> "KeyError", results |-> <<>>]
           ELSE [outcome |-> "ok",
                 results |-> [r \in DOMAIN hits |->
                    [payload |-> store.document_map[hits[r].idx],
                     distance |-> hits[r].distance]]]

\* search: faiss asserts the length of the query and k > 0; then the payload
\* of every filled slot, with its distance, in slot order. A position
\* without payload raises KeyError.
Search(store, query_embedding, k) ==
  IF Len(query_embedding) # store.index.d THEN [outcome |-> "AssertionError", results |-> <<>>]
  ELSE IF k <= 0 THEN [outcome |-> "AssertionError", results |-> <<>>]
  ELSE LET hits == SelectSeq(IndexSearch(store.index, query_embedding, k), IsValid)
       IN  IF \E r \in DOMAIN hits : hits[r].idx \notin DOMAIN store.document_map
           THEN [outcome |-> "KeyError", results |-> <<>>]
           ELSE [outcome |-> "ok",
                 results |-> [r \in DOMAIN hits |->
                    [payload |-> store.document_map[hits[r].idx],
                     distance |-> hits[r].distance]]]

\* The slots of index.search whose payloads search returns.
Hits(store, query_embedding, k) ==
  IF Search(store, query_embedding, k).outcome # "ok" THEN <<>>
  ELSE SelectSeq(IndexSearch(store.index, query_embedding, k), IsValid)

\* What a payload reads as once another holder of the dict has written to it.
Changed == "changed"

\* search returning the dicts of document_map themselves: each returned
\* record is the stored payload of its id.
SharedWithStoreNoCopy(store, query_embedding, k) ==
  LET hits == Hits(store, query_embedding, k)
  IN  [r \in DOMAIN hits |-> hits[r].idx]

\* Line 38: each returned record is a copy() of the payload, a dict of its
\* own: for each returned record, the id whose stored dict it is, and -1 for
\* none.
SharedWithStore(store, query_embedding, k) ==
  LET hits == Hits(store, query_embedding, k)
  IN  [r \in DOMAIN hits |-> -1]

\* The store after a write to the returned records at the given positions:
\* a record that is a stored dict changes the payload of its id.
WriteThrough(store, shared, written) ==
  [store EXCEPT !.document_map =
     [id \in DOMAIN @ |->
        IF \E r \in written : shared[r] = id THEN Changed ELSE @[id]]]

\* Line 39: search writes the distance to every record it returns.
StoreAfterSearch(store, query_embedding, k) ==
  LET shared == SharedWithStore(store, query_embedding, k)
  IN  WriteThrough(store, shared, DOMAIN shared)

\* ------------------------------------------------------ persistence -----
\* A path without file, and a file whose writing was cut short.
NoFile == [kind |-> "none"]
TornFile == [kind |-> "torn"]

\* faiss.write_index / faiss.read_index: the header (d, ntotal) and the
\* codes, as IndexFlat serializes them.
WriteIndex(index) ==
  [kind |-> "index", d |-> index.d, ntotal |-> index.ntotal, codes |-> index.xb]
ReadIndex(file) == [d |-> file.d, ntotal |-> file.ntotal, xb |-> file.codes]

\* pickle.dump / pickle.load of the dictionary of lines 54-58.
PickleDump(document_map, current_id, dimension) ==
  [kind |-> "pkl",
   data |-> [document_map |-> document_map, current_id |-> current_id,
             dimension |-> dimension]]
PickleLoad(file) == file.data

\* load without line 74: the instance keeps the index its constructor made.
LoadKeepsNewIndex(files) ==
  IF files.index.kind # "index" \/ files.pkl.kind # "pkl"
    THEN [outcome |-> "RuntimeError", instance |-> VectorStore(Dimension)]
  ELSE LET data == files.pkl.data
       IN  [outcome |-> "ok",
            instance |-> [dimension |-> data.dimension,
                          index |-> IndexFlatL2(data.dimension),
                          document_map |-> data.document_map,
                          current_id |-> data.current_id]]

\* VectorStore.load: both artifacts read, then the fields assigned as read.
Load(files) ==
  IF files.index.kind # "index"
    THEN [outcome |-> "RuntimeError", instance |-> VectorStore(Dimension)]
  ELSE IF files.pkl.kind = "none"
    THEN [outcome |-> "FileNotFoundError", instance |-> VectorStore(Dimension)]
  ELSE IF files.pkl.kind # "pkl"
    THEN [outcome |-> "UnpicklingError", instance |-> VectorStore(Dimension)]
  ELSE LET data == PickleLoad(files.pkl)
       IN  [outcome |-> "ok",
            instance |-> [dimension |-> data.dimension,
                          index |-> ReadIndex(files.index),
                          document_map |-> data.document_map,
                          current_id |-> data.current_id]]

\* load as a method that assigns the fields of the store in use, each as
\* soon as its artifact is read.
ReloadInPlace(current, files) ==
  IF files.index.kind # "index" THEN current
  ELSE IF files.pkl.kind # "pkl"
    THEN [current EXCEPT !.index = ReadIndex(files.index)]
  ELSE Load(files).instance

\* vector_store = VectorStore.load(path): the store the name refers to
\* afterwards. load is a classmethod that builds its instance after both
\* reads; when it raises, the assignment does not happen.
Reload(current, files) ==
  LET r == Load(files)
  IN  IF r.outcome = "ok" THEN r.instance ELSE current

\* The artifacts a save of the store leaves when nothing runs beside it.
Save(store) ==
  [index |-> WriteIndex(store.index),
   pkl |-> PickleDump(store.document_map, store.current_id, store.dimension)]

\* ------------------------------------------------------------ state -----
VARIABLES
  proc,     \* "up", "crashed" (stopped, memory lost) or "failed" (start-up raised)
  store,    \* the module-level vector_store
  adding,   \* the arguments of the add_embeddings call between lines 24 and 26
  saves,    \* the background saves in flight, each at its position in save
  disk,     \* the two artifacts at VECTOR_STORE_PATH
  last,     \* the last call made, its arguments' shape and its outcome
  hist,     \* the highest id handed out so far, and whether this process loaded
  reqs,     \* the ingest requests (of one file name) awaiting process_file
  temp,     \* whether the temporary file of that file name exists
  users,    \* the users table of the backend: username to row
  documents, \* the documents table: the number of rows of each user
  uploads,  \* the upload handlers of each user that passed the checks
  tokens,   \* the users that hold an access token
  granted   \* for each user, the last change of its approval (history)

vars == <<proc, store, adding, saves, disk, last, hist, reqs, temp,
          users, documents, uploads, tokens, granted>>

service == <<proc, store, adding, saves, disk, hist, reqs, temp>>
backend == <<users, documents, uploads, tokens, granted>>

\* The people who may register, the administrator the database holds, and
\* the e-mail addresses given at registration (the administrator's is "r").
Usernames == {"ann"}
Admin == "root"
Accounts == Usernames \cup {Admin}
Emails == {"r", "x"}
Passwords == {"p", "q"}

\* auth.get_password_hash and auth.verify_password
get_password_hash(password) == <<"bcrypt", password>>
verify_password(plain_password, hashed_password) ==
  get_password_hash(plain_password) = hashed_password

\* The database as the service finds it: the administrator's row only.
BackendInit ==
  /\ users = (Admin :> [email |-> "r", hashed_password |-> get_password_hash("p"),
                        is_approved |-> TRUE, is_admin |-> TRUE])
  /\ documents = [u \in Accounts |-> 0]
  /\ uploads = [u \in Accounts |-> 0]
  /\ tokens = {}
  /\ granted = [u \in Accounts |-> IF u = Admin THEN "approved" ELSE "never"]

Call(op, arg, outcome) == [op |-> op, arg |-> arg, outcome |-> outcome]

\* The shape of an add_embeddings call: the length of each vector, and the
\* number of payloads.
AddShape(embeddings, metadata) ==
  [lens |-> [i \in DOMAIN embeddings |-> Len(embeddings[i])], m |-> Len(metadata)]
NoArg == [lens |-> <<>>, m |-> 0]

\* A call of search: the query, k, the outcome and the results returned.
Searched(query_embedding, k, r) ==
  [op |-> "search", arg |-> [q |-> query_embedding, k |-> k],
   outcome |-> r.outcome, results |-> r.results]

NoAdd == [embeddings |-> <<>>, metadata |-> <<>>]

SaveTask(pc, cid) == [pc |-> pc, cid |-> cid]

Init ==
  /\ proc = "up"
  /\ store = VectorStore(Dimension)
  /\ adding = NoAdd
  /\ saves = EmptyBag
  /\ disk = [index |-> NoFile, pkl |-> NoFile]
  /\ last = Call("start", NoArg, "fresh")
  /\ hist = [ever |-> -1, loaded |-> FALSE]
  /\ reqs = 0
  /\ temp = FALSE
  /\ BackendInit

\* The handlers as plain functions, each run in a worker thread.
ThreadedHandlers == TRUE

\* ingest_document and query are coroutines that call the store without
\* awaiting in between: one runs on the event loop only when no other is
\* inside add_embeddings.
EventLoopFree == adding = NoAdd

\* The model lets the next id grow to MaxVectors, and the index hold one
\* vector more than that.
Room(n) ==
  /\ store.current_id + n <= MaxVectors
  /\ VectorCount(store) + n <= MaxVectors + 1

\* ingest_document, lines 46-52: the upload written to the temporary file
\* named after it, and the parser awaited.
IngestReceive ==
  /\ proc = "up"
  /\ EventLoopFree
  /\ reqs < MaxUploads
  /\ reqs' = reqs + 1
  /\ temp' = TRUE
  /\ UNCHANGED <<proc, store, adding, saves, disk, last, hist>>
  /\ UNCHANGED backend

\* ingest_document from the parser's answer up to line 24 of
\* add_embeddings: the chunks embedded and passed with their embeddings. A
\* rejected call leaves the handler through its except clause.
IngestAdd(chunks) ==
  /\ proc = "up"
  /\ EventLoopFree
  /\ reqs > 0
  /\ reqs' = reqs - 1
  /\ LET embeddings == get_embeddings(chunks)
         metadata == chunks
         outcome == AddCheck(store, embeddings, metadata)
         shape == AddShape(embeddings, metadata)
     IN  IF outcome = "ok"
         THEN /\ Room(Len(embeddings))
              /\ store' = AddVectors(store, embeddings)
              /\ adding' = [embeddings |-> embeddings, metadata |-> metadata]
              /\ last' = Call("add", shape, "started")
         ELSE /\ last' = Call("add", shape, outcome)
              /\ UNCHANGED <<store, adding>>
  /\ UNCHANGED <<proc, saves, disk, hist, temp>>
  /\ UNCHANGED backend

\* Lines 26-29 of add_embeddings, then lines 62-73 of ingest_document: the
\* save is handed to the background tasks and the temporary file removed.
\* os.remove raises when another request of the same file name has removed
\* the file; the handler then answers with an error, and the background
\* tasks of a request that raised are not run.
IngestCommit ==
  /\ proc = "up"
  /\ adding # NoAdd
  /\ store' = AddPayloads(store, adding.metadata)
  /\ adding' = NoAdd
  /\ IF temp
     THEN /\ saves' = saves (+) SetToBag({SaveTask("start", -1)})
          /\ temp' = FALSE
          /\ last' = Call("add", AddShape(adding.embeddings, adding.metadata), "ok")
     ELSE /\ last' = Call("ingest", AddShape(adding.embeddings, adding.metadata),
                          "FileNotFoundError")
          /\ UNCHANGED <<saves, temp>>
  /\ hist' = [hist EXCEPT !.ever = Max(@, store'.current_id - 1)]
  /\ UNCHANGED <<proc, disk, reqs>>
  /\ UNCHANGED backend

\* The query handler, with k the top_k of the request: the results
\* returned, or the error answered.
Query(query_embedding, k) ==
  /\ proc = "up"
  /\ EventLoopFree
  /\ LET r == Search(store, query_embedding, k)
     IN  last' = Call("search", [k |-> k, n |-> Len(r.results)], r.outcome)
  /\ UNCHANGED <<proc, store, adding, saves, disk, hist, reqs, temp>>
  /\ UNCHANGED backend

Step(t, next) == (saves (-) SetToBag({t})) (+) SetToBag({next})

\* save, line 49: faiss opens the .index file for writing ...
SaveOpenIndex(t) ==
  /\ proc = "up" /\ t.pc = "start"
  /\ disk' = [disk EXCEPT !.index = TornFile]
  /\ saves' = Step(t, SaveTask("index", -1))
  /\ last' = Call("save", NoArg, "index")
  /\ UNCHANGED <<proc, store, adding, hist, reqs, temp>>
  /\ UNCHANGED backend

\* ... and writes the index as it is now.
SaveWriteIndex(t) ==
  /\ proc = "up" /\ t.pc = "index"
  /\ disk' = [disk EXCEPT !.index = WriteIndex(store.index)]
  /\ saves' = Step(t, SaveTask("pkl", -1))
  /\ last' = Call("save", NoArg, "pkl")
  /\ UNCHANGED <<proc, store, adding, hist, reqs, temp>>
  /\ UNCHANGED backend

\* Lines 52-58: the .pkl file opened for writing, the dictionary built.
SaveOpenPkl(t) ==
  /\ proc = "up" /\ t.pc = "pkl"
  /\ disk' = [disk EXCEPT !.pkl = TornFile]
  /\ saves' = Step(t, SaveTask("dump", store.current_id))
  /\ last' = Call("save", NoArg, "dump")
  /\ UNCHANGED <<proc, store, adding, hist, reqs, temp>>
  /\ UNCHANGED backend

\* Line 53: the dictionary pickled, with document_map as it is now.
SaveDump(t) ==
  /\ proc = "up" /\ t.pc = "dump"
  /\ disk' = [disk EXCEPT !.pkl = PickleDump(store.document_map, t.cid, store.dimension)]
  /\ saves' = saves (-) SetToBag({t})
  /\ last' = Call("save", NoArg, "ok")
  /\ UNCHANGED <<proc, store, adding, hist, reqs, temp>>
  /\ UNCHANGED backend

\* The process is killed: memory, the requests and the saves in flight are
\* lost, the files stay as they are.
Crash ==
  /\ proc = "up"
  /\ proc' = "crashed"
  /\ store' = VectorStore(Dimension)
  /\ adding' = NoAdd
  /\ saves' = EmptyBag
  /\ last' = Call("crash", NoArg, "ok")
  /\ hist' = [hist EXCEPT !.loaded = FALSE]
  /\ reqs' = 0
  /\ UNCHANGED <<disk, temp>>
  /\ UNCHANGED backend

\* Module start-up of main.py: a new store, replaced by the loaded one
\* when the .index file exists.
Start ==
  /\ proc = "crashed"
  /\ IF disk.index.kind = "none"
     THEN /\ proc' = "up"
          /\ store' = VectorStore(Dimension)
          /\ last' = Call("start", NoArg, "fresh")
          /\ UNCHANGED hist
     ELSE LET r == Load(disk)
          IN  IF r.outcome = "ok"
              THEN /\ proc' = "up"
                   /\ store' = Reload(store, disk)
                   /\ last' = Call("load", NoArg, "ok")
                   /\ hist' = [hist EXCEPT !.loaded = TRUE]
              ELSE /\ proc' = "failed"
                   /\ store' = Reload(store, disk)
                   /\ last' = Call("load", NoArg, r.outcome)
                   /\ UNCHANGED hist
  /\ UNCHANGED <<adding, saves, disk, reqs, temp>>
  /\ UNCHANGED backend

Next ==
  \/ IngestReceive
  \/ \E chunks \in Documents : IngestAdd(chunks)
  \/ IngestCommit
  \/ \E p \in Payloads : \E k \in -1..MaxK : Query(TextVector[p], k)
  \/ \E t \in BagToSet(saves) : SaveOpenIndex(t)
  \/ \E t \in BagToSet(saves) : SaveWriteIndex(t)
  \/ \E t \in BagToSet(saves) : SaveOpenPkl(t)
  \/ \E t \in BagToSet(saves) : SaveDump(t)
  \/ Crash
  \/ Start

Spec == Init /\ [][Next]_vars

\* A background save that was handed over is run by the thread pool, and a
\* save that runs goes on to its end, as long as the process is up.
SaveStep ==
  \E t \in BagToSet(saves) :
    SaveOpenIndex(t) \/ SaveWriteIndex(t) \/ SaveOpenPkl(t) \/ SaveDump(t)

SpecFair == Spec /\ WF_vars(SaveStep)

\* ------------------------------------------- one caller, call by call ---
\* A VectorStore used by one caller that makes one call at a time, each
\* call run to its end: add_embeddings, search, save and load.
CallAdd(embeddings, metadata) ==
  /\ proc = "up" /\ adding = NoAdd
  /\ LET outcome == AddCheck(store, embeddings, metadata)
         shape == AddShape(embeddings, metadata)
     IN  IF outcome = "ok"
         THEN /\ Room(Len(embeddings))
              /\ store' = AddPayloads(AddVectors(store, embeddings), metadata)
              /\ last' = Call("add", shape, "ok")
         ELSE /\ last' = Call("add", shape, outcome)
              /\ UNCHANGED store
  /\ UNCHANGED <<proc, adding, saves, disk, hist, reqs, temp>>
  /\ UNCHANGED backend

CallSearch(query_embedding, k) ==
  /\ proc = "up" /\ adding = NoAdd
  /\ last' = Searched(query_embedding, k, Search(store, query_embedding, k))
                @@ [shared |-> SharedWithStore(store, query_embedding, k)]
  /\ store' = StoreAfterSearch(store, query_embedding, k)
  /\ UNCHANGED <<proc, adding, saves, disk, hist, reqs, temp>>
  /\ UNCHANGED backend

\* The caller changes the first record a search returned to it.
CallerEdits ==
  /\ proc = "up" /\ adding = NoAdd
  /\ last.op = "search" /\ last.outcome = "ok" /\ last.results # <<>>
  /\ last' = [last EXCEPT !.op = "edited", !.results[1].payload = Changed]
  /\ store' = WriteThrough(store, last.shared, {1})
  /\ UNCHANGED <<proc, adding, saves, disk, hist, reqs, temp>>
  /\ UNCHANGED backend

CallSave ==
  /\ proc = "up" /\ adding = NoAdd
  /\ disk' = Save(store)
  /\ last' = Call("save", NoArg, "ok")
  /\ UNCHANGED <<proc, store, adding, saves, hist, reqs, temp>>
  /\ UNCHANGED backend

CallLoad ==
  /\ proc = "up" /\ adding = NoAdd
  /\ LET r == Load(disk)
     IN  IF r.outcome = "ok"
         THEN store' = Reload(store, disk) /\ last' = Call("load", NoArg, "ok")
         ELSE store' = Reload(store, disk) /\ last' = Call("load", NoArg, r.outcome)
  /\ UNCHANGED <<proc, adding, saves, disk, hist, reqs, temp>>
  /\ UNCHANGED backend

NextStore ==
  \/ \E call \in AddInputs : CallAdd(call[1], call[2])
  \/ \E q \in InputVectors : \E k \in -1..MaxK : CallSearch(q, k)
  \/ CallSave
  \/ CallLoad
  \/ CallerEdits

SpecStore == Init /\ [][NextStore]_vars

\* ------------------------------------------------- DocumentProcessor ----
\* A text is its characters: a letter, the full stop and the blank.
Chars == {"a", ".", " "}
Texts == SeqsUpTo(Chars, MaxTextLen)

\* The metadata a caller passes: none, a record of the source, and one that
\* names keys process_text sets itself.
NoMetadata == <<>>
Metadatas ==
  {NoMetadata, [source |-> "f"],
   [source |-> "f", chunk_id |-> <<"x">>, chunk_index |-> 9, text |-> <<"a">>]}

RECURSIVE rstrip(_)
rstrip(s) ==
  IF s # <<>> /\ s[Len(s)] = " " THEN rstrip(SubSeq(s, 1, Len(s) - 1)) ELSE s

\* sent_tokenize: a sentence ends at a full stop that is followed by blanks
\* and a further token; the blanks between two sentences belong to neither,
\* the last sentence loses its trailing blanks, and an empty one is dropped.
RECURSIVE SentencesFrom(_, _)
SentencesFrom(text, start) ==
  LET n == Len(text)
      ends == {i \in start..(n - 1) :
                 /\ text[i] = "." /\ text[i + 1] = " "
                 /\ \E j \in (i + 1)..n : text[j] # " "}
  IN  IF ends = {}
      THEN LET s == rstrip(SubSeq(text, start, n))
           IN  IF s = <<>> THEN <<>> ELSE <<s>>
      ELSE LET i == CHOOSE e \in ends : \A f \in ends : e <= f
               next == CHOOSE j \in (i + 1)..n :
                         text[j] # " " /\ \A m \in (i + 1)..(j - 1) : text[m] = " "
           IN  <<SubSeq(text, start, i)>> \o SentencesFrom(text, next)

sent_tokenize(text) == SentencesFrom(text, 1)

\* " ".join(sentences)
RECURSIVE Join(_)
Join(sentences) ==
  IF sentences = <<>> THEN <<>>
  ELSE IF Len(sentences) = 1 THEN sentences[1]
  ELSE sentences[1] \o <<" ">> \o Join(Tail(sentences))

\* The loop of lines 44-54 over the sentences left, and lines 56-59.
RECURSIVE ChunkLoop(_, _, _, _)
ChunkLoop(sentences, chunks, current_chunk, current_length) ==
  IF sentences = <<>>
  THEN IF current_chunk # <<>> THEN Append(chunks, Join(current_chunk)) ELSE chunks
  ELSE LET sentence == Head(sentences)
           sentence_length == Len(sentence)
       IN  IF current_length + sentence_length > ChunkSize
           THEN ChunkLoop(Tail(sentences),
                          IF current_chunk # <<>>
                          THEN Append(chunks, Join(current_chunk)) ELSE chunks,
                          <<sentence>>, sentence_length)
           ELSE ChunkLoop(Tail(sentences), chunks,
                          Append(current_chunk, sentence),
                          current_length + sentence_length)

\* The loop with the buffer replaced at line 50 and not flushed at line 49.
RECURSIVE ChunkLoopDropsBuffer(_, _, _, _)
ChunkLoopDropsBuffer(sentences, chunks, current_chunk, current_length) ==
  IF sentences = <<>>
  THEN IF current_chunk # <<>> THEN Append(chunks, Join(current_chunk)) ELSE chunks
  ELSE LET sentence == Head(sentences)
           sentence_length == Len(sentence)
       IN  IF current_length + sentence_length > ChunkSize
           THEN ChunkLoopDropsBuffer(Tail(sentences), chunks,
                                     <<sentence>>, sentence_length)
           ELSE ChunkLoopDropsBuffer(Tail(sentences), chunks,
                                     Append(current_chunk, sentence),
                                     current_length + sentence_length)

chunk_text_drops_buffer(text) == ChunkLoopDropsBuffer(sent_tokenize(text), <<>>, <<>>, 0)

\* The loop without the flush of lines 56-57.
RECURSIVE ChunkLoopNoLastFlush(_, _, _, _)
ChunkLoopNoLastFlush(sentences, chunks, current_chunk, current_length) ==
  IF sentences = <<>> THEN chunks
  ELSE LET sentence == Head(sentences)
           sentence_length == Len(sentence)
       IN  IF current_length + sentence_length > ChunkSize
           THEN ChunkLoopNoLastFlush(Tail(sentences),
                          IF current_chunk # <<>>
                          THEN Append(chunks, Join(current_chunk)) ELSE chunks,
                          <<sentence>>, sentence_length)
           ELSE ChunkLoopNoLastFlush(Tail(sentences), chunks,
                          Append(current_chunk, sentence),
                          current_length + sentence_length)

chunk_text_no_last_flush(text) == ChunkLoopNoLastFlush(sent_tokenize(text), <<>>, <<>>, 0)

\* DocumentProcessor._chunk_text
chunk_text(text) == ChunkLoop(sent_tokenize(text), <<>>, <<>>, 0)

\* hashlib.md5(text.encode()).hexdigest(): a digest, many texts to one
\* (here the length of the text and the number of its letters).
md5(text) == <<Len(text), Cardinality({i \in DOMAIN text : text[i] = "a"})>>

\* process_text with the digest taken of the chunk and not of the text.
process_text_hashes_chunk(text, metadata) ==
  LET chunks == chunk_text(text)
  IN  [n \in DOMAIN chunks |->
         [chunk_id |-> <<md5(chunks[n]), "_", n - 1>>,
          chunk_index |-> n - 1,
          total_chunks |-> Len(chunks),
          text |-> chunks[n]] @@ metadata]

\* process_text with the caller's metadata laid over the chunk's own keys.
process_text_metadata_wins(text, metadata) ==
  LET chunks == chunk_text(text)
  IN  [n \in DOMAIN chunks |->
         metadata @@ [chunk_id |-> <<md5(text), "_", n - 1>>,
                      chunk_index |-> n - 1,
                      total_chunks |-> Len(chunks),
                      text |-> chunks[n]]]

\* DocumentProcessor.process_text: for each chunk a copy of the metadata,
\* updated with the four keys of the chunk.
process_text(text, metadata) ==
  LET chunks == chunk_text(text)
  IN  [n \in DOMAIN chunks |->
         [chunk_id |-> <<md5(text), "_", n - 1>>,
          chunk_index |-> n - 1,
          total_chunks |-> Len(chunks),
          text |-> chunks[n]] @@ metadata]

\* A call of process_text: the arguments and the chunks returned.
Processed(text, metadata) ==
  [op |-> "process_text", arg |-> [text |-> text, metadata |-> metadata],
   outcome |-> "ok", results |-> process_text(text, metadata)]

\* The service idle, and a text with its metadata handed to the processor.
InitProcessor ==
  /\ proc = "up"
  /\ store = VectorStore(Dimension)
  /\ adding = NoAdd
  /\ saves = EmptyBag
  /\ disk = [index |-> NoFile, pkl |-> NoFile]
  /\ hist = [ever |-> -1, loaded |-> FALSE]
  /\ reqs = 0
  /\ temp = FALSE
  /\ BackendInit
  /\ \E text \in Texts : \E metadata \in Metadatas :
       last = Call("text", [text |-> text, metadata |-> metadata], "given")

ProcessText ==
  /\ last.op = "text"
  /\ last' = Processed(last.arg.text, last.arg.metadata)
  /\ UNCHANGED <<proc, store, adding, saves, disk, hist, reqs, temp>>
  /\ UNCHANGED backend

NextProcessor == ProcessText

SpecProcessor == InitProcessor /\ [][NextProcessor]_vars

\* -------------------------------------------------- EmbeddingService ----
\* A text is the tokens the tokenizer finds in it; the tokenizer puts the
\* two special tokens around them and pads with a third.
Vocab == {"t", "u"}
BOS == "<s>"
EOS == "</s>"
PAD == "<pad>"
TokenTexts == SeqsUpTo(Vocab, MaxTokens)
Batches == SeqsUpTo(TokenTexts, MaxBatch) \ {<<>>}

\* The hidden states the encoding model may leave at a padded position.
PadStates == {Filled(Dimension, 0), Filled(Dimension, 5)}

Min(a, b) == IF a <= b THEN a ELSE b

RECURSIVE GCD(_, _)
GCD(a, b) == IF b = 0 THEN a ELSE GCD(b, a % b)

Abs(a) == IF a < 0 THEN 0 - a ELSE a

\* The quotient num / den, den > 0, in lowest terms.
Frac(num, den) ==
  LET g == GCD(Abs(num), den)
  IN  IF num = 0 THEN <<0, 1>> ELSE <<num \div g, den \div g>>

RECURSIVE SumSeq(_)
SumSeq(s) == IF s = <<>> THEN 0 ELSE Head(s) + SumSeq(Tail(s))

\* truncation=True, max_length: the tokens of one text with the special
\* tokens, cut to MaxLength tokens in all.
Encode(text) ==
  <<BOS>> \o SubSeq(text, 1, Min(Len(text), MaxLength - 2)) \o <<EOS>>

\* self.tokenizer(texts, padding=True, truncation=True, ...): every row
\* padded to the longest row of the batch, with the mask of its own tokens.
tokenizer(texts) ==
  LET rows == [i \in DOMAIN texts |-> Encode(texts[i])]
      longest == CHOOSE n \in {Len(rows[i]) : i \in DOMAIN rows} :
                   \A i \in DOMAIN rows : Len(rows[i]) <= n
  IN  [input_ids |->
         [i \in DOMAIN rows |-> rows[i] \o Filled(longest - Len(rows[i]), PAD)],
       attention_mask |->
         [i \in DOMAIN rows |->
            Filled(Len(rows[i]), 1) \o Filled(longest - Len(rows[i]), 0)]]

\* The encoding model: the hidden state of an attended position is a function
\* of the attended tokens of its row and of the position; a padded position
\* holds what the model left there.
Weight == (BOS :> 1) @@ (EOS :> 2) @@ ("t" :> 3) @@ ("u" :> 4) @@ (PAD :> 7)

Hidden(ids, pos) ==
  [d \in 1..Dimension |->
     Weight[ids[pos]] * d + pos + SumSeq([j \in DOMAIN ids |-> Weight[ids[j]]])]

model(encoded_input, pad_state) ==
  [i \in DOMAIN encoded_input.input_ids |->
     LET mask == encoded_input.attention_mask[i]
         attended == SumSeq(mask)
         ids == SubSeq(encoded_input.input_ids[i], 1, attended)
     IN  [pos \in DOMAIN mask |->
            IF mask[pos] = 1 THEN Hidden(ids, pos) ELSE pad_state]]

\* torch.clamp(x, min=1e-9) of a count of positions, as a fraction.
Clamp(count) == IF count >= 1 THEN <<count, 1>> ELSE <<1, 1000000000>>

\* The mean over all the positions of the row, padded ones included.
mean_pooling_unmasked(token_embeddings, attention_mask) ==
  [i \in DOMAIN token_embeddings |->
     [d \in 1..Dimension |->
        Frac(SumSeq([pos \in DOMAIN attention_mask[i] |->
                       token_embeddings[i][pos][d]]),
             Len(attention_mask[i]))]]

\* EmbeddingService._mean_pooling: the sum of the hidden states times the
\* mask, over the clamped sum of the mask.
mean_pooling(token_embeddings, attention_mask) ==
  [i \in DOMAIN token_embeddings |->
     LET den == Clamp(SumSeq(attention_mask[i]))
     IN  [d \in 1..Dimension |->
            Frac(SumSeq([pos \in DOMAIN attention_mask[i] |->
                           token_embeddings[i][pos][d] * attention_mask[i][pos]])
                   * den[2],
                 den[1])]]

\* torch.nn.functional.normalize(p=2, dim=1): the unit vector of the row's
\* direction, held as the least integer vector of that direction (the zero
\* row stays zero).
RECURSIVE GCDSeq(_)
GCDSeq(s) == IF s = <<>> THEN 0 ELSE GCD(Abs(Head(s)), GCDSeq(Tail(s)))

RECURSIVE ProdSeq(_)
ProdSeq(s) == IF s = <<>> THEN 1 ELSE Head(s) * ProdSeq(Tail(s))

normalize(rows) ==
  [i \in DOMAIN rows |->
     LET common == ProdSeq([d \in DOMAIN rows[i] |-> rows[i][d][2]])
         ints == [d \in DOMAIN rows[i] |->
                    rows[i][d][1] * (common \div rows[i][d][2])]
         g == GCDSeq(ints)
     IN  IF g = 0 THEN ints ELSE [d \in DOMAIN ints |-> ints[d] \div g]]

\* EmbeddingService.get_embeddings on the tokens of the texts: the pooled
\* rows and the normalized rows returned.
Embed(texts, pad_state) ==
  LET encoded_input == tokenizer(texts)
      model_output == model(encoded_input, pad_state)
      pooled == mean_pooling(model_output, encoded_input.attention_mask)
  IN  [pooled |-> pooled, embeddings |-> normalize(pooled)]

\* EmbeddingService.get_query_embedding
get_query_embedding(query, pad_state) == Embed(<<query>>, pad_state).embeddings[1]

\* The service idle, and a batch of texts handed to the embedding service.
InitEmbedder ==
  /\ proc = "up"
  /\ store = VectorStore(Dimension)
  /\ adding = NoAdd
  /\ saves = EmptyBag
  /\ disk = [index |-> NoFile, pkl |-> NoFile]
  /\ hist = [ever |-> -1, loaded |-> FALSE]
  /\ reqs = 0
  /\ temp = FALSE
  /\ BackendInit
  /\ \E texts \in Batches : last = Call("texts", texts, "given")

GetEmbeddings(pad_state) ==
  /\ last.op = "texts"
  /\ last' = [op |-> "get_embeddings", arg |-> last.arg, outcome |-> "ok",
              pad_state |-> pad_state,
              results |-> Embed(last.arg, pad_state)]
  /\ UNCHANGED <<proc, store, adding, saves, disk, hist, reqs, temp>>
  /\ UNCHANGED backend

NextEmbedder == \E pad_state \in PadStates : GetEmbeddings(pad_state)

SpecEmbedder == InitEmbedder /\ [][NextEmbedder]_vars

\* ----------------------------------------------------------- backend ----
\* The handlers of src/backend/app/main.py. Each is a plain function, run by
\* the framework in a worker thread with a database session of its own, so
\* handlers of several requests run at once; a handler that reads the
\* database once and commits at most once is one step, upload_document
\* (a count, then an insert) is two.

\* The files a client uploads: a PDF within the size limit, a PDF above it,
\* and a file that is no PDF.
Files == {"pdf", "big", "txt"}

Answer(op, user, outcome) == [op |-> op, arg |-> [user |-> user], outcome |-> outcome]

\* auth.get_current_user, auth.get_current_admin_user
CurrentUser(u) == u \in tokens /\ u \in DOMAIN users
IsAdmin(u) == users[u].is_admin

\* register_user
RegisterUser(username, email, password) ==
  /\ IF \/ username \in DOMAIN users
        \/ \E u \in DOMAIN users : users[u].email = email
     THEN /\ last' = Answer("register", username, "400")
          /\ UNCHANGED users
     ELSE /\ users' = users @@
                (username :> [email |-> email,
                              hashed_password |-> get_password_hash(password),
                              is_approved |-> FALSE, is_admin |-> FALSE])
          /\ last' = Answer("register", username, "200")
  /\ UNCHANGED <<documents, uploads, tokens, granted>>
  /\ UNCHANGED service

\* login_user with the approval check left out.
LoginStatusNoApproval(username, password) ==
  IF username \notin DOMAIN users THEN "401"
  ELSE IF ~verify_password(password, users[username].hashed_password) THEN "401"
  ELSE "200"

\* login_user, lines 143-166: the status answered.
LoginStatus(username, password) ==
  IF username \notin DOMAIN users THEN "401"
  ELSE IF ~users[username].is_approved THEN "403"
  ELSE IF ~verify_password(password, users[username].hashed_password) THEN "401"
  ELSE "200"

\* login_user: the token is made and returned when no check failed.
LoginUser(username, password) ==
  LET status == LoginStatus(username, password)
  IN  /\ last' = [op |-> "login",
                  arg |-> [user |-> username, password |-> password],
                  outcome |-> status,
                  access_token |-> IF status = "200" THEN <<username>> ELSE <<>>]
      /\ tokens' = IF status = "200" THEN tokens \cup {username} ELSE tokens
      /\ UNCHANGED <<users, documents, uploads, granted>>
      /\ UNCHANGED service

\* approve_user
ApproveUser(admin_user, user_id) ==
  /\ CurrentUser(admin_user)
  /\ IF ~IsAdmin(admin_user)
     THEN /\ last' = Answer("approve", user_id, "403")
          /\ UNCHANGED <<users, granted>>
     ELSE IF user_id \notin DOMAIN users
     THEN /\ last' = Answer("approve", user_id, "404")
          /\ UNCHANGED <<users, granted>>
     ELSE IF users[user_id].is_approved
     THEN /\ last' = Answer("approve", user_id, "400")
          /\ UNCHANGED <<users, granted>>
     ELSE /\ users' = [users EXCEPT ![user_id].is_approved = TRUE]
          /\ granted' = [granted EXCEPT ![user_id] = "approved"]
          /\ last' = Answer("approve", user_id, "200")
  /\ UNCHANGED <<documents, uploads, tokens>>
  /\ UNCHANGED service

\* disapprove_user
DisapproveUser(admin_user, user_id) ==
  /\ CurrentUser(admin_user)
  /\ IF ~IsAdmin(admin_user)
     THEN /\ last' = Answer("disapprove", user_id, "403")
          /\ UNCHANGED <<users, granted>>
     ELSE IF user_id \notin DOMAIN users
     THEN /\ last' = Answer("disapprove", user_id, "404")
          /\ UNCHANGED <<users, granted>>
     ELSE IF users[user_id].is_admin \/ ~users[user_id].is_approved
     THEN /\ last' = Answer("disapprove", user_id, "400")
          /\ UNCHANGED <<users, granted>>
     ELSE /\ users' = [users EXCEPT ![user_id].is_approved = FALSE]
          /\ granted' = [granted EXCEPT ![user_id] = "withdrawn"]
          /\ last' = Answer("disapprove", user_id, "200")
  /\ UNCHANGED <<documents, uploads, tokens>>
  /\ UNCHANGED service

\* upload_document, lines 289-310: the count of the user's rows and the
\* checks; the handler that passes them writes the file and goes on.
UploadCheck(current_user, file) ==
  /\ CurrentUser(current_user)
  /\ uploads[current_user] < MaxRequests
  /\ LET doc_count == documents[current_user]
     IN  IF doc_count >= DocumentLimit \/ file # "pdf"
         THEN /\ last' = Answer("upload", current_user, "400")
              /\ UNCHANGED uploads
         ELSE /\ uploads' = [uploads EXCEPT ![current_user] = @ + 1]
              /\ last' = Answer("upload", current_user, "checked")
  /\ UNCHANGED <<users, documents, tokens, granted>>
  /\ UNCHANGED service

\* upload_document, lines 312-318: the row is added and committed.
UploadCommit(current_user) ==
  /\ uploads[current_user] > 0
  /\ uploads' = [uploads EXCEPT ![current_user] = @ - 1]
  /\ documents' = [documents EXCEPT ![current_user] = @ + 1]
  /\ last' = Answer("upload", current_user, "200")
  /\ UNCHANGED <<users, tokens, granted>>
  /\ UNCHANGED service

\* delete_document of a row of the caller, or of a row that is not there.
DeleteDocument(current_user) ==
  /\ CurrentUser(current_user)
  /\ IF documents[current_user] = 0
     THEN /\ last' = Answer("delete", current_user, "404")
          /\ UNCHANGED documents
     ELSE /\ documents' = [documents EXCEPT ![current_user] = @ - 1]
          /\ last' = Answer("delete", current_user, "200")
  /\ UNCHANGED <<users, uploads, tokens, granted>>
  /\ UNCHANGED service

NextBackend ==
  \/ \E username \in Usernames, email \in Emails, password \in Passwords :
       RegisterUser(username, email, password)
  \/ \E username \in Accounts, password \in Passwords : LoginUser(username, password)
  \/ \E admin_user \in Accounts, user_id \in Accounts : ApproveUser(admin_user, user_id)
  \/ \E admin_user \in Accounts, user_id \in Accounts : DisapproveUser(admin_user, user_id)
  \/ \E current_user \in Usernames, file \in Files : UploadCheck(current_user, file)
  \/ \E current_user \in Usernames : UploadCommit(current_user)
  \/ \E current_user \in Usernames : DeleteDocument(current_user)

SpecBackend == Init /\ [][NextBackend]_vars

\* ----------------------------------------------------------- claims -----
\* The two artifacts are complete and describe one index state.
PairConsistent(files) ==
  /\ files.index.kind = "index"
  /\ files.pkl.kind = "pkl"
  /\ files.index.d = files.pkl.data.dimension
  /\ files.index.ntotal = Cardinality(DOMAIN files.pkl.data.document_map)
  /\ files.index.ntotal = files.pkl.data.current_id

\* A step that is a call of add_embeddings (up to its rejection or line 24),
\* and a step that is the rest of a call that was not rejected.
AddCall == last'.op = "add" /\ last'.outcome # "started"
CommitStep == proc = "up" /\ adding # NoAdd /\ proc' = "up" /\ adding' = NoAdd

\* C1: between calls, the index holds as many vectors as document_map has
\* entries.
C1_CountsAgree ==
  (proc = "up" /\ adding = NoAdd) => VectorCount(store) = MapSize(store)

\* C2: add_embeddings with len(embeddings) # len(metadata) is rejected with
\* the length error and changes nothing of the store.
C2_LengthMismatchRejected ==
  [][(AddCall /\ Len(last'.arg.lens) # last'.arg.m)
       => (/\ last'.outcome = "ValueError: number must match"
           /\ store' = store)]_vars

C2_Witness ==
  /\ last.op = "add" /\ last.outcome = "ValueError: number must match"
  /\ Len(last.arg.lens) = 2 /\ last.arg.m = 1
  /\ VectorCount(store) = 1

\* C3: add_embeddings with a vector of a wrong length anywhere in the batch
\* is rejected and applies none of the batch.
HasWrongLength(lens, d) == \E i \in DOMAIN lens : lens[i] # d

C3_AllOrNothing ==
  [][(AddCall /\ HasWrongLength(last'.arg.lens, store.index.d))
       => (/\ last'.outcome \in {"ValueError: shape", "AssertionError"}
           /\ store' = store)]_vars

C3_Witness ==
  /\ last.op = "add" /\ last.outcome = "ValueError: shape"
  /\ last.arg.lens = <<Dimension, Dimension + 1>> /\ last.arg.m = 2
  /\ VectorCount(store) = 1 /\ MapSize(store) = 1 /\ store.current_id = 1

\* C4: a successful add_embeddings started at next id c stores item i under
\* id c+i in document_map and at position c+i of the index, and leaves the
\* next id at c+n.
C4_ConsecutiveIds ==
  [][CommitStep =>
       LET c == store.current_id
           n == Len(adding.metadata)
       IN  /\ store'.current_id = c + n
           /\ \A i \in 1..n :
                /\ (c + i - 1) \in DOMAIN store'.document_map
                /\ store'.document_map[c + i - 1] = adding.metadata[i]
                /\ c + i - 1 < store'.index.ntotal
                /\ Reconstruct(store'.index, c + i - 1) = adding.embeddings[i]]_vars

\* C5: whenever the process has crashed, the path holds no artifact at all
\* or a complete pair that describes one index state.
C5_SaveCrashAtomic ==
  proc = "crashed" => (disk = [index |-> NoFile, pkl |-> NoFile] \/ PairConsistent(disk))

\* C6: a load that follows a save gives a store with the same dimension,
\* next id and document_map, and the same result for every search.
C6_SaveLoadRoundTrip ==
  [][(last.op = "save" /\ last'.op = "load")
       => (/\ last'.outcome = "ok"
           /\ store'.dimension = store.dimension
           /\ store'.current_id = store.current_id
           /\ store'.document_map = store.document_map
           /\ \A q \in InputVectors : \A k \in -1..MaxK :
                Search(store', q, k) = Search(store, q, k))]_vars

C6_Witness ==
  /\ last.op = "load" /\ last.outcome = "ok"
  /\ disk = Save(store)
  /\ VectorCount(store) = 2
  /\ store.document_map[0] # store.document_map[1]

\* C7: in a process that restored the index with load, every id assigned is
\* greater than every id assigned before, in this process or an earlier one.
C7_IdsNeverReused ==
  [][(CommitStep /\ hist.loaded) => store.current_id > hist.ever]_vars

\* C8: a load that returns a store has read a complete pair whose recorded
\* dimensions agree and whose vector and payload counts agree.
LoadablePair(files) ==
  /\ files.index.kind = "index"
  /\ files.pkl.kind = "pkl"
  /\ files.index.d = files.pkl.data.dimension
  /\ files.index.ntotal = Cardinality(DOMAIN files.pkl.data.document_map)

C8_LoadRejectsCorrupt ==
  (last.op = "load" /\ last.outcome = "ok") => LoadablePair(disk)

\* C9: a search never runs while the vectors of an add_embeddings call are
\* in the index and its payloads are not yet in document_map.
C9_SearchSeesWholeAdds ==
  last.op = "search" => adding = NoAdd

C9_Witness ==
  /\ last.op = "search" /\ last.outcome = "ok"
  /\ VectorCount(store) = 2 /\ MapSize(store) = 2
  /\ BagCardinality(saves) = 2

\* C10: when a save has completed, the two artifacts describe one index
\* state: as many vectors as payloads, and that many as the next id.
C10_SavedPairIsOneState ==
  (last.op = "save" /\ last.outcome = "ok") => PairConsistent(disk)

\* C11: a load that fails leaves the store in memory as it was, and the
\* process does not go on to serve requests from it.
C11_FailedLoadKeepsStore ==
  [][(last'.op = "load" /\ last'.outcome # "ok")
       => (store' = store /\ proc' = "failed")]_vars

\* The .index file was read whole and holds vectors, the .pkl file was cut
\* short, and the store in memory holds none of it.
C11_Witness ==
  /\ last.op = "load" /\ last.outcome = "UnpicklingError"
  /\ disk.index.kind = "index" /\ disk.index.ntotal >= 1
  /\ store = VectorStore(Dimension)

\* C12: a step of an ingest request that ends the request with an error
\* leaves the vectors, document_map and next id of the store as they were.
C12_FailedIngestKeepsStore ==
  [][(last' # last /\ last'.op \in {"add", "ingest"}
        /\ last'.outcome \notin {"started", "ok"})
       => store' = store]_vars
\* C13: a step of the running process (a step of add_embeddings, a search
\* or a step of save) keeps every id of document_map with its payload and
\* its vector, and does not lower the next id.
C13_AppendOnly ==
  [][(proc = "up" /\ proc' = "up")
       => (/\ \A id \in DOMAIN store.document_map :
                /\ id \in DOMAIN store'.document_map
                /\ store'.document_map[id] = store.document_map[id]
                /\ id < store.index.ntotal
                     => Reconstruct(store'.index, id) = Reconstruct(store.index, id)
           /\ store'.current_id >= store.current_id)]_vars

\* A search that follows at once an add_embeddings of one vector, with that
\* vector as the query and k >= 1. The vector added is the last of the
\* index and its payload the one under the last id.
SearchForJustAdded ==
  /\ last.op = "add" /\ last.outcome = "ok" /\ Len(last.arg.lens) = 1
  /\ last'.op = "search" /\ last'.arg.k >= 1
  /\ last'.arg.q = Reconstruct(store.index, store.index.ntotal - 1)

\* The lowest position of the index that holds vector v.
FirstPositionOf(index, v) ==
  CHOOSE i \in 0..(index.ntotal - 1) :
    /\ Reconstruct(index, i) = v
    /\ \A j \in 0..(i - 1) : Reconstruct(index, j) # v

C16_MinOfKAndCount ==
  (last.op = "search" /\ last.arg.k >= 1) =>
    /\ last.outcome = "ok"
    /\ last.arg.n = (IF last.arg.k < store.index.ntotal
                      THEN last.arg.k ELSE store.index.ntotal)

C18_ChunkIndexContiguous ==
  (last.op = "process_text" /\ last.arg.text # <<>>) =>
    \A n \in DOMAIN last.results :
      /\ last.results[n].chunk_index = n - 1
      /\ last.results[n].total_chunks = Len(last.results)
      /\ last.results[n].total_chunks >= 1

\* Two chunks, made with metadata that names chunk_index itself.
C18_Witness ==
  /\ last.op = "process_text"
  /\ Len(last.results) = 2
  /\ "chunk_index" \in DOMAIN last.arg.metadata
  /\ last.results[2].source = "f"

\* C19: the sentences of the text fall, in order, into consecutive
\* non-empty groups, one group per chunk, and each chunk is its group joined.
C19_NoSentenceLost ==
  last.op = "process_text" =>
    LET sentences == sent_tokenize(last.arg.text)
        chunks == last.results
    IN  \E group \in [DOMAIN sentences -> DOMAIN chunks] :
          /\ \A i, j \in DOMAIN sentences : i <= j => group[i] <= group[j]
          /\ \A n \in DOMAIN chunks :
               /\ \E i \in DOMAIN sentences : group[i] = n
               /\ chunks[n].text =
                    Join(SelectSeq([i \in DOMAIN sentences |->
                                      IF group[i] = n THEN sentences[i] ELSE <<>>],
                                   LAMBDA s : s # <<>>))

\* Three sentences in two chunks, the first chunk holding two of them.
C19_Witness ==
  /\ last.op = "process_text"
  /\ Len(sent_tokenize(last.arg.text)) = 3
  /\ Len(last.results) = 2
  /\ last.results[1].text = <<".", " ", ".">>

\* C20: the empty text gives no chunk, and a text of one sentence shorter
\* than chunk_size gives one chunk that is the sentence, with chunk_index 0
\* and total_chunks 1.
C20_EmptyAndShortText ==
  last.op = "process_text" =>
    LET sentences == sent_tokenize(last.arg.text)
    IN  /\ last.arg.text = <<>> => (last.outcome = "ok" /\ last.results = <<>>)
        /\ (Len(sentences) = 1 /\ Len(sentences[1]) < ChunkSize) =>
             /\ Len(last.results) = 1
             /\ last.results[1].text = sentences[1]
             /\ last.results[1].chunk_index = 0
             /\ last.results[1].total_chunks = 1

\* The one-letter text, returned as one chunk.
C20_Witness ==
  /\ last.op = "process_text"
  /\ last.arg.text = <<"a">>
  /\ Len(last.results) = 1 /\ last.results[1].text = <<"a">>

\* C21: every chunk_id of a process_text call is the digest of the whole
\* text, "_" and the chunk's chunk_index; the chunk_ids of the call are
\* pairwise distinct; and the call on the same text with any other metadata
\* gives the same sequence of chunk_ids.
ChunkIds(chunks) == [n \in DOMAIN chunks |-> chunks[n].chunk_id]

C21_ChunkIdOfDocument ==
  last.op = "process_text" =>
    LET ids == ChunkIds(last.results)
    IN  /\ \A n \in DOMAIN ids :
             ids[n] = <<md5(last.arg.text), "_", last.results[n].chunk_index>>
        /\ \A m, n \in DOMAIN ids : m # n => ids[m] # ids[n]
        /\ \A metadata \in Metadatas :
             ChunkIds(process_text(last.arg.text, metadata)) = ids

\* Two chunks of different texts, made with metadata that names chunk_id.
C21_Witness ==
  /\ last.op = "process_text"
  /\ "chunk_id" \in DOMAIN last.arg.metadata
  /\ Len(last.results) = 2
  /\ last.results[1].text # last.results[2].text

\* C22: the pooled row and the embedding returned for a text of a batch are
\* those returned for the text embedded alone, whatever the encoding model
\* leaves at the padded positions.
C22_BatchInvariant ==
  last.op = "get_embeddings" =>
    \A i \in DOMAIN last.arg : \A pad_state \in PadStates :
      LET alone == Embed(<<last.arg[i]>>, pad_state)
      IN  /\ last.results.pooled[i] = alone.pooled[1]
          /\ last.results.embeddings[i] = alone.embeddings[1]

\* A batch of a shorter and a longer text, the shorter padded over a
\* non-zero hidden state, with different embeddings for the two.
C22_Witness ==
  /\ last.op = "get_embeddings"
  /\ Len(last.arg) = 2
  /\ Len(Encode(last.arg[1])) < Len(Encode(last.arg[2]))
  /\ last.pad_state # Filled(Dimension, 0)
  /\ last.results.embeddings[1] # last.results.embeddings[2]

\* C23: every user owns at most DocumentLimit rows of the documents table.
C23_AtMostLimitDocuments ==
  \A u \in Accounts : documents[u] <= DocumentLimit

\* C24: a login answers with a token only for a user of the table whose
\* is_approved flag is set, whose approval was granted last, and whose
\* password verifies; and a login of a user of the table that was never
\* approved, or whose approval was withdrawn last, answers 403 without a
\* token.
C24_LoginNeedsApproval ==
  [][(last' # last /\ last'.op = "login") =>
       LET u == last'.arg.user
       IN  /\ (last'.access_token # <<>> \/ tokens' # tokens) =>
                 /\ u \in DOMAIN users
                 /\ users[u].is_approved
                 /\ granted[u] = "approved"
                 /\ verify_password(last'.arg.password, users[u].hashed_password)
                 /\ last'.outcome = "200"
           /\ (u \in DOMAIN users /\ granted[u] \in {"never", "withdrawn"}) =>
                 /\ last'.outcome = "403"
                 /\ last'.access_token = <<>>
                 /\ tokens' = tokens]_vars

\* A user who held a token, lost the approval, and is answered 403 at a
\* login with the right password.
C24_Witness ==
  /\ last.op = "login" /\ last.outcome = "403"
  /\ last.arg.user \in tokens
  /\ granted[last.arg.user] = "withdrawn"
  /\ verify_password(last.arg.password, users[last.arg.user].hashed_password)

\* C25: every chunk of process_text that holds two or more sentences has a
\* text of at most chunk_size characters; a chunk with a longer text holds
\* exactly one sentence.
C25_LongChunkIsOneSentence ==
  last.op = "process_text" =>
    \A n \in DOMAIN last.results :
      LET chunk == last.results[n].text
      IN  /\ Len(sent_tokenize(chunk)) >= 2 => Len(chunk) <= ChunkSize
          /\ Len(chunk) > ChunkSize => Len(sent_tokenize(chunk)) = 1

\* The longest run of trailing sentences whose joined text is at most
\* ChunkOverlap characters long.
RECURSIVE TrailingWithin(_, _)
TrailingWithin(sentences, taken) ==
  IF sentences = <<>> THEN taken
  ELSE LET more == <<sentences[Len(sentences)]>> \o taken
       IN  IF Len(Join(more)) > ChunkOverlap THEN taken
           ELSE TrailingWithin(SubSeq(sentences, 1, Len(sentences) - 1), more)

\* C26: every chunk of process_text after the first starts with the
\* trailing sentences of the chunk before it that fit within chunk_overlap
\* characters.
C26_ChunksOverlap ==
  last.op = "process_text" =>
    \A n \in DOMAIN last.results :
      n >= 2 =>
        LET carried == Join(TrailingWithin(sent_tokenize(last.results[n - 1].text), <<>>))
            chunk == last.results[n].text
        IN  /\ Len(chunk) >= Len(carried)
            /\ SubSeq(chunk, 1, Len(carried)) = carried

\* C27: a search, and a later change of a returned record by the caller,
\* leave the vectors, document_map and the next id as they were; every
\* stored payload and every payload a search returns is one that was added.
C27_SearchReadOnly ==
  /\ [][(last' # last /\ last'.op \in {"search", "edited"}) => store' = store]_vars
  /\ [](/\ \A id \in DOMAIN store.document_map : store.document_map[id] \in Payloads
        /\ (last.op = "search" /\ last.outcome = "ok") =>
              \A r \in DOMAIN last.results : last.results[r].payload \in Payloads)

\* The caller changed a record of a search that found two payloads, and both
\* are stored as they were added.
C27_Witness ==
  /\ last.op = "edited"
  /\ Len(last.results) = 2
  /\ last.results[1].payload = Changed
  /\ MapSize(store) = 2
  /\ \A id \in DOMAIN store.document_map : store.document_map[id] \in Payloads

\* C28: in a store that one caller builds call by call, the keys of
\* document_map are 0..current_id-1, current_id is the number of vectors of
\* the index, and no search, for any query and k, fails on a missing key.
C28_KeysAreThePositions ==
  /\ DOMAIN store.document_map = 0..(store.current_id - 1)
  /\ store.current_id = VectorCount(store)
  /\ \A q \in InputVectors : \A k \in 1..MaxK :
       /\ Search(store, q, k).outcome # "KeyError"
       /\ \A r \in DOMAIN Hits(store, q, k) :
            Hits(store, q, k)[r].idx \in DOMAIN store.document_map
  /\ last.op = "search" => last.outcome # "KeyError"

\* A store that was never saved or loaded, filled with two vectors by
\* add_embeddings, and a search that returned both payloads.
C28_Witness ==
  /\ disk.index = NoFile /\ disk.pkl = NoFile
  /\ store.current_id = 2 /\ VectorCount(store) = 2
  /\ last.op = "search" /\ last.outcome = "ok" /\ Len(last.results) = 2
  /\ last.arg.k = 2

\* The artifacts on disk are those of a save of the store as it is, or
\* nothing was added yet.
Persisted == store.current_id = 0 \/ disk = Save(store)

\* C29: in a run without crash in which every ingest that added its chunks
\* answered with success, once no ingest is in progress any more the
\* artifacts on disk come to be, and stay, those of the store after the last
\* add.
C29_IngestEventuallyPersisted ==
  (/\ [](proc = "up")
   /\ [](last.outcome # "FileNotFoundError")
   /\ <>[](reqs = 0 /\ adding = NoAdd))
    => <>[]Persisted

\* C30: no ingest request is answered with an error for the temporary file
\* that another request of the same file name removed.
C30_NoTempFileInterference ==
  last.op = "ingest" => last.outcome # "FileNotFoundError"
====
